---- MODULE Spec2Model ----
(***************************************************************************)
(* A model of the rustdns DNS codec and resolver:                          *)
(*   - BytePacketBuffer, the 512-byte wire cursor (src/src/packets.rs),    *)
(*   - DnsQuestion::read / DnsRecord::read (src/src/record.rs),            *)
(*   - lookup / recursive_lookup / handle_query / main                     *)
(*     (src/src/bin/server.rs).                                            *)
(* SpecCursor drives the cursor operations on received buffers; Spec       *)
(* drives the server's accept loop and the resolver's hops.                *)
(***************************************************************************)
EXTENDS Integers, Sequences, FiniteSets, TLC

VARIABLES
    buf,        \* BytePacketBuffer.buf : [0..511 -> 0..255]
    pos,        \* BytePacketBuffer.pos : usize
    op,         \* the last cursor operation and what it returned
    nops,       \* number of cursor operations applied so far
    phase,      \* server.rs main/handle_query: "idle", "resolving", "crashed"
    request,    \* the decoded request being handled
    stack,      \* the active recursive_lookup calls, outermost first
    sent,       \* upstream queries sent for the request being handled
    lastQuery,  \* the last query packet lookup sent upstream
    lastReply,  \* what the last lookup call returned
    ret,        \* what the recursive_lookup call that made the last lookup did
    outcome,    \* what the outermost recursive_lookup returned
    response    \* what handle_query did with its response packet

cursorVars == <<buf, pos, op, nops>>

serverVars == <<phase, request, stack, sent, lastQuery, lastReply, ret, outcome, response>>

vars == <<buf, pos, op, nops, phase, request, stack, sent, lastQuery, lastReply,
          ret, outcome, response>>

(***************************************************************************)
(* Bounds of the model and constants of the program.                       *)
(***************************************************************************)
Cap == 512
max_jumps == 5
MaxLabel == 63
MaxOps == 2
Fuel == 2048
MaxQueries == 22
MaxDepth == 2
HeaderLen == 12

Byte == 0 .. 255
Index == 0 .. (Cap - 1)

(***************************************************************************)
(* Characters are code points.  String::from_utf8_lossy maps a byte that   *)
(* is not valid UTF-8 to U+FFFD; to_lowercase folds A..Z.  The buffers     *)
(* below hold ASCII and the never-valid byte 0xFF only, so a byte is one   *)
(* character.                                                              *)
(***************************************************************************)
Dot == 46
Replacement == 65533

Lossy(b) == IF b < 128 THEN b ELSE Replacement

Lower(c) == IF c >= 65 /\ c <= 90 THEN c + 32 ELSE c

\* the label as its bytes are, letters not folded
LabelText_Raw(b, start, len) == [i \in 1 .. len |-> Lossy(b[start + i - 1])]

\* String::from_utf8_lossy(str_buffer).to_lowercase() of b[start .. start+len)
LabelText(b, start, len) == [i \in 1 .. len |-> Lower(Lossy(b[start + i - 1]))]

(***************************************************************************)
(* BytePacketBuffer: reads.                                                *)
(***************************************************************************)
\* fn read(&mut self): one byte at the cursor, cursor one step forward
ReadByte(b, p) ==
    IF p >= Cap
    THEN [st |-> "BufferBounds", pos |-> p, val |-> 0]
    ELSE [st |-> "ok", pos |-> p + 1, val |-> b[p]]

\* read_u16 / read_u32: n calls of read(), left to right, each with `?`.
\* The bytes read are kept most significant first.
RECURSIVE ReadBE(_, _, _, _)
ReadBE(b, p, n, acc) ==
    IF n = 0
    THEN [st |-> "ok", pos |-> p, val |-> acc]
    ELSE LET r == ReadByte(b, p)
         IN  IF r.st # "ok" THEN r ELSE ReadBE(b, r.pos, n - 1, Append(acc, r.val))

\* ((read() as u16) << 8) | (read() as u16)
read_u16(b, p) ==
    LET Join(r) == [r EXCEPT !.val = IF r.st # "ok" THEN 0 ELSE r.val[1] * 256 + r.val[2]]
    IN  Join(ReadBE(b, p, 2, <<>>))

\* A u32 is written as its four bytes <<b3, b2, b1, b0>>, most significant
\* first (the shifts by 24, 16, 8, 0).
read_u32(b, p) == ReadBE(b, p, 4, <<>>)

\* fn get(&mut self, pos): the guard tests the cursor self.pos, not the
\* argument; self.buf[pos] with pos >= 512 is an index-out-of-bounds panic.
get(b, selfpos, p) ==
    IF selfpos >= Cap
    THEN [st |-> "BufferBounds", val |-> 0]
    ELSE IF p >= Cap
         THEN [st |-> "panic", val |-> 0]
         ELSE [st |-> "ok", val |-> b[p]]

\* fn get_range(&mut self, start, len)
get_range(start, len) ==
    IF start + len >= Cap THEN "BufferBounds" ELSE "ok"

IsPointer(len) == len >= 192        \* (len & 0xC0) == 0xC0

\* (((len as u16) ^ 0xC0) << 8) | b2
JumpOffset(len, b2) == (len - 192) * 256 + b2

(***************************************************************************)
(* read_qname.  lpos is the local position, spos the shared cursor, out    *)
(* the string built so far, delim the pending delimiter.  The result       *)
(* carries the cursor, the string and jumps_performed.                     *)
(***************************************************************************)
QnameResult(st, spos, out, jumps) ==
    [st |-> st, pos |-> spos, out |-> out, jumps |-> jumps]

\* if jumps_performed > max_jumps { return Err(..) }
JumpLimitExceeded(jumps) == jumps > max_jumps

RECURSIVE QnameLoop(_, _, _, _, _, _, _, _)
QnameLoop(b, spos, lpos, jumped, jumps, out, delim, fuel) ==
    IF fuel = 0 THEN QnameResult("hang", spos, out, jumps)
    ELSE IF JumpLimitExceeded(jumps) THEN QnameResult("MalformedName", spos, out, jumps)
    ELSE
    LET g == get(b, spos, lpos)
    IN
    IF g.st # "ok" THEN QnameResult(g.st, spos, out, jumps)
    ELSE IF IsPointer(g.val)
    THEN LET spos2 == IF ~jumped THEN lpos + 2 ELSE spos
             g2 == get(b, spos2, lpos + 1)
         IN  IF g2.st # "ok"
             THEN QnameResult(g2.st, spos2, out, jumps)
             ELSE QnameLoop(b, spos2, JumpOffset(g.val, g2.val), TRUE,
                            jumps + 1, out, delim, fuel - 1)
    ELSE IF g.val = 0
    THEN QnameResult("ok", IF ~jumped THEN lpos + 1 ELSE spos, out, jumps)
    ELSE IF get_range(lpos + 1, g.val) # "ok"
    THEN QnameResult("BufferBounds", spos, out \o delim, jumps)
    ELSE QnameLoop(b, spos, lpos + 1 + g.val, jumped, jumps,
                   out \o delim \o LabelText(b, lpos + 1, g.val), <<Dot>>,
                   fuel - 1)

read_qname(b, p, outstr) == QnameLoop(b, p, p, FALSE, 0, outstr, <<>>, Fuel)

(***************************************************************************)
(* BytePacketBuffer: writes.                                               *)
(***************************************************************************)
WriteResult(st, b, p) == [st |-> st, buf |-> b, pos |-> p]

\* buf: [0; 512]
ZeroBuf == [i \in Index |-> 0]

\* the buffer b with the bytes stored from offset off on
Patch(b, off, bytes) ==
    [i \in Index |-> IF i >= off /\ i < off + Len(bytes)
                     THEN bytes[i - off + 1] ELSE b[i]]

\* fn write(&mut self, val) and write_u8
write_u8(b, p, v) ==
    IF p >= Cap
    THEN WriteResult("BufferBounds", b, p)
    ELSE WriteResult("ok", [b EXCEPT ![p] = v], p + 1)

\* the bytes of a sequence, one write() each, stopping at the first error:
\* the bytes that fit are stored, the first one that does not fit fails
WriteBytes(b, p, bytes) ==
    LET room == IF p >= Cap THEN 0 ELSE Cap - p
        k == IF Len(bytes) <= room THEN Len(bytes) ELSE room
    IN  WriteResult(IF k = Len(bytes) THEN "ok" ELSE "BufferBounds",
                    Patch(b, p, SubSeq(bytes, 1, k)), p + k)

write_u16(b, p, v) == WriteBytes(b, p, <<(v \div 256) % 256, v % 256>>)

\* v is the u32 as its four bytes, most significant first
write_u32(b, p, v) == WriteBytes(b, p, <<v[1], v[2], v[3], v[4]>>)

\* qname.split('.'): the labels between dots; "" splits into one empty label
RECURSIVE Split(_)
Split(name) ==
    LET dots == {i \in 1 .. Len(name) : name[i] = Dot}
        Cut(d) == <<SubSeq(name, 1, d - 1)>> \o Split(SubSeq(name, d + 1, Len(name)))
    IN  IF dots = {} THEN <<name>>
        ELSE Cut(CHOOSE d \in dots : \A e \in dots : d <= e)

RECURSIVE WriteLabels(_, _, _)
WriteLabels(b, p, labels) ==
    IF labels = <<>>
    THEN write_u8(b, p, 0)
    ELSE LET label == Head(labels)
         IN  IF Len(label) > MaxLabel
             THEN WriteResult("LabelTooLong", b, p)
             ELSE LET r == WriteBytes(b, p, <<Len(label)>> \o label)
                  IN  IF r.st # "ok" THEN r
                      ELSE WriteLabels(r.buf, r.pos, Tail(labels))

write_qname(b, p, qname) == WriteLabels(b, p, Split(qname))

(***************************************************************************)
(* record.rs: QueryType, DnsQuestion::read, DnsRecord::read.               *)
(***************************************************************************)
from_num(num) ==
    IF num = 1 THEN [tag |-> "A", num |-> 1] ELSE [tag |-> "UNKNOWN", num |-> num]

to_num(qtype) == IF qtype.tag = "A" THEN 1 ELSE qtype.num

NoValue == [tag |-> "none"]

DecodeResult(st, p, val) == [st |-> st, pos |-> p, val |-> val]

\* DnsQuestion::read: the name is appended to self.name
QuestionRead(b, p, name) ==
    LET Fail(r) == DecodeResult(r.st, r.pos, NoValue)
        AfterClass(n, t, c) ==
            IF c.st # "ok" THEN Fail(c)
            ELSE DecodeResult("ok", c.pos, [name |-> n.out, qtype |-> from_num(t.val)])
        AfterType(n, t) ==
            IF t.st # "ok" THEN Fail(t) ELSE AfterClass(n, t, read_u16(b, t.pos))
        AfterName(n) ==
            IF n.st # "ok" THEN Fail(n) ELSE AfterType(n, read_u16(b, n.pos))
    IN  AfterName(read_qname(b, p, name))

\* a skip that leaves the cursor where it is
step_Stays(p, steps) == p

\* buffer.step(data_len as usize)
step(p, steps) == p + steps

\* DnsRecord::read
RecordRead(b, p) ==
    LET Fail(r) == DecodeResult(r.st, r.pos, NoValue)
        \* QueryType::A => read_u32 as the address
        AfterAddr(n, ttl, a) ==
            IF a.st # "ok" THEN Fail(a)
            ELSE DecodeResult("ok", a.pos,
                     [tag |-> "A", domain |-> n.out, addr |-> a.val, ttl |-> ttl.val])
        AfterLen(n, t, ttl, dl) ==
            IF dl.st # "ok" THEN Fail(dl)
            ELSE IF from_num(t.val).tag = "A"
            THEN AfterAddr(n, ttl, read_u32(b, dl.pos))
            ELSE DecodeResult("ok", step(dl.pos, dl.val),
                     [tag |-> "UNKNOWN", domain |-> n.out, qtype |-> t.val,
                      data_len |-> dl.val, ttl |-> ttl.val])
        AfterTtl(n, t, ttl) ==
            IF ttl.st # "ok" THEN Fail(ttl) ELSE AfterLen(n, t, ttl, read_u16(b, ttl.pos))
        AfterClass(n, t, c) ==
            IF c.st # "ok" THEN Fail(c) ELSE AfterTtl(n, t, read_u32(b, c.pos))
        AfterType(n, t) ==
            IF t.st # "ok" THEN Fail(t) ELSE AfterClass(n, t, read_u16(b, t.pos))
        AfterName(n) ==
            IF n.st # "ok" THEN Fail(n) ELSE AfterType(n, read_u16(b, n.pos))
    IN  AfterName(read_qname(b, p, <<>>))

(***************************************************************************)
(* The buffers the cursor operations are applied to.  A BytePacketBuffer   *)
(* is created zeroed with pos = 0 (BytePacketBuffer::new) and then filled  *)
(* by recv_from with whatever the peer sent.                               *)
(***************************************************************************)
\* A message: question "A.c" at 12, an A record at 21 whose owner is a
\* pointer to 12, a record of unknown type 99 at 37 with rdlength 4, an A
\* record at 53, a record of unknown type 99 at 69 with rdlength 600, an A
\* record at 90 that declares rdlength 6 (so the next record, an A record,
\* starts at 108).
BufMessage ==
    Patch(Patch(Patch(Patch(Patch(Patch(Patch(ZeroBuf,
        12, <<1, 65, 1, 99, 0,  0, 1,  0, 1>>),
        21, <<192, 12,  0, 1,  0, 1,  0, 0, 0, 60,  0, 4,  10, 0, 0, 1>>),
        37, <<192, 12,  0, 99,  0, 1,  0, 0, 0, 60,  0, 4,  255, 192, 12, 7>>),
        53, <<192, 12,  0, 1,  0, 1,  0, 0, 0, 60,  0, 4,  10, 0, 0, 2>>),
        69, <<192, 12,  0, 99,  0, 1,  0, 0, 0, 60,  2, 88>>),
        90, <<192, 12,  0, 1,  0, 1,  0, 0, 0, 60,  0, 6,  10, 0, 0, 3,  9, 9>>),
        108, <<192, 12,  0, 1,  0, 1,  0, 0, 0, 60,  0, 4,  10, 0, 0, 4>>)

\* Compression pointers: a pointer to itself at 20; two pointers to each
\* other at 30 and 32; a label followed by a pointer back to it at 40; a
\* pointer to offset 512 at 50; a chain of pointers 58 -> 60 -> 62 -> 64 ->
\* 66 -> 68 -> 70 ending in the name "z" at 70; a pointer to itself in the
\* last two bytes of the buffer.
BufPointers ==
    Patch(Patch(Patch(Patch(Patch(Patch(ZeroBuf,
        20, <<192, 20>>),
        30, <<192, 32, 192, 30>>),
        40, <<1, 119, 192, 40>>),
        50, <<194, 0>>),
        58, <<192, 60, 192, 62, 192, 64, 192, 66, 192, 68, 192, 70, 1, 122, 0>>),
        510, <<193, 254>>)

\* Labels at the end of the buffer: "abcde" at 500 followed at 506 by a
\* label of five bytes that ends at the last buffer byte, 511.
BufEdge ==
    Patch(ZeroBuf, 500, <<5, 97, 98, 99, 100, 101, 5, 102, 103, 104, 105, 106>>)

\* Compressed names: "Ab.c" at 12; "w" and a pointer to 12 at 20; "x" and
\* a pointer to 20 at 30; "y" and a pointer to 12 at 508, the pointer being
\* the last two bytes of the buffer.
BufCompressed ==
    Patch(Patch(Patch(Patch(ZeroBuf,
        12, <<2, 65, 98, 1, 99, 0>>),
        20, <<1, 119, 192, 12>>),
        30, <<1, 120, 192, 20>>),
        508, <<1, 121, 192, 12>>)

\* a received buffer with a header of the four section counts q, a, n, r
WithHeader(b, q, a, n, r) == Patch(b, 0, <<18, 52, 1, 0, 0, q, 0, a, 0, n, 0, r>>)

\* Whole messages over the records of BufMessage: one question and one
\* record in each section; the same with the record of rdlength 600 as the
\* last one; the same with one more record declared after it; a question
\* whose name is a pointer to itself; a question whose name is a pointer
\* to offset 512.
MessageBufs ==
    {WithHeader(BufMessage, 1, 1, 1, 1),
     WithHeader(BufMessage, 1, 2, 1, 1),
     WithHeader(BufMessage, 1, 2, 1, 2),
     WithHeader(Patch(ZeroBuf, 12, <<192, 12>>), 1, 1, 0, 0),
     WithHeader(Patch(ZeroBuf, 12, <<194, 0>>), 1, 0, 0, 0)}

ReceivedBufs == {ZeroBuf, BufMessage, BufPointers, BufEdge, BufCompressed} \cup MessageBufs

\* Positions a cursor is moved to in a buffer (step is public and
\* unguarded): where its names and records start.
Positions(b) ==
    CASE b = BufMessage -> {12, 21, 37, 69, 90}
      [] b = BufPointers -> {20, 30, 40, 50, 58, 60, 510, 511}
      [] b = BufEdge -> {500, 506}
      [] b = BufCompressed -> {12, 20, 30, 508, 510}
      [] b \in MessageBufs -> {}
      [] OTHER -> {500, 511}

StepSizes == {2, 600}

WrittenValues == {192, 65535}

\* "a.B" and a name whose first label has 64 bytes
Repeat(c, n) == [i \in 1 .. n |-> c]

WrittenNames == {<<97, Dot, 66>>, Repeat(97, MaxLabel + 1) \o <<Dot, 99>>}

\* the names written and read back: those, a name whose first label has 63
\* bytes, and "a..b" with an empty label
RoundTripNames ==
    WrittenNames \cup {Repeat(97, MaxLabel) \o <<Dot, 99>>, <<97, Dot, Dot, 98>>}

RangeArgs == {<<0, Cap>>, <<0, Cap - 1>>, <<Cap - 12, 12>>, <<Cap, 1>>}

\* the record of a cursor operation: its name, how it ended, the cursor
\* before it, its argument and its value (each under the operation's name,
\* the operations having arguments and values of different types)
OpRecord(name, st, at, arg, val) ==
    [name |-> name, st |-> st, at |-> at, arg |-> (name :> arg), val |-> (name :> val)]

(***************************************************************************)
(* DnsPacket values and the delegation helpers of packets.rs.  A name is   *)
(* the sequence of its characters; an address or a ttl is its four bytes.  *)
(***************************************************************************)
None == NoValue

Some(v) == [tag |-> "some", val |-> v]

\* the four count fields of a header
Counts(q, a, n, r) ==
    [questions |-> q, answers |-> a, authoritative_entries |-> n, resource_entries |-> r]

\* DnsPacket::new(); counts are the header's count fields as they stand,
\* which only write and from_buffer bring in line with the sections
NewPacket ==
    [id |-> 0, recursion_desired |-> FALSE, recursion_available |-> FALSE,
     response |-> FALSE, rescode |-> "NOERROR", counts |-> Counts(0, 0, 0, 0),
     questions |-> <<>>, answers |-> <<>>, authorities |-> <<>>, resources |-> <<>>]

ARecord(domain, addr) == [tag |-> "A", domain |-> domain, addr |-> addr, ttl |-> <<0, 0, 0, 60>>]

NSRecord(domain, host) == [tag |-> "NS", domain |-> domain, host |-> host, ttl |-> <<0, 0, 0, 60>>]

IsA(r) == r.tag = "A"

\* get_random_a: the address of the first A record among the answers
get_random_a(p) ==
    LET First(as) == IF as = <<>> THEN None ELSE Some(as[1].addr)
    IN  First(SelectSeq(p.answers, IsA))

\* str::ends_with
EndsWith(s, suffix) ==
    /\ Len(suffix) <= Len(s)
    /\ SubSeq(s, Len(s) - Len(suffix) + 1, Len(s)) = suffix

\* get_ns: the NS records of the authority section with qname.ends_with(domain)
get_ns(p, qname) ==
    SelectSeq(p.authorities, LAMBDA r : r.tag = "NS" /\ EndsWith(qname, r.domain))

\* the flat_map of get_resolved_ns: for each name server in order, the A
\* records of the additional section whose domain is its host
RECURSIVE Glue(_, _)
Glue(nss, resources) ==
    IF nss = <<>> THEN <<>>
    ELSE SelectSeq(resources, LAMBDA r : r.tag = "A" /\ r.domain = Head(nss).host)
         \o Glue(Tail(nss), resources)

get_resolved_ns(p, qname) ==
    LET First(g) == IF g = <<>> THEN None ELSE Some(g[1].addr)
    IN  First(Glue(get_ns(p, qname), p.resources))

get_unresolved_ns(p, qname) ==
    LET First(nss) == IF nss = <<>> THEN None ELSE Some(nss[1].host)
    IN  First(get_ns(p, qname))

(***************************************************************************)
(* What the network delivers.  A datagram is the bytes of its header and   *)
(* question section, which DnsPacket::from_buffer decodes (and on which it *)
(* can fail or panic), and its three record sections as decoded values.    *)
(***************************************************************************)
Root == <<198, 41, 0, 4>>
Addr1 == <<10, 0, 0, 1>>
Addr2 == <<10, 0, 0, 2>>

NameQ == <<97, 98, Dot, 99>>        \* "ab.c"
NameHost == <<110, Dot, 99>>        \* "n.c"
ZoneC == <<99>>                     \* "c"
ZoneX == <<120>>                    \* "x"
ZoneBC == <<98, Dot, 99>>           \* "b.c": ends "ab.c", but not at a label
NameHostB == <<109, Dot, 99>>       \* "m.c"

TypeA == from_num(1)

\* id 0x1234 and: one question "AB.c" of type A at offset 12 / no question /
\* one question whose name is a pointer to itself / one question whose name
\* is a pointer to offset 512
WireOk ==
    Patch(ZeroBuf, 0, <<18, 52, 1, 0, 0, 1, 0, 0, 0, 0, 0, 0,
                        2, 65, 66, 1, 99, 0, 0, 1, 0, 1>>)
WireNoQuestion == Patch(ZeroBuf, 0, <<18, 52, 1, 0, 0, 0>>)
WireLoop == Patch(ZeroBuf, 0, <<18, 52, 1, 0, 0, 1, 0, 0, 0, 0, 0, 0, 192, 12>>)
WirePastEnd == Patch(ZeroBuf, 0, <<18, 52, 1, 0, 0, 1, 0, 0, 0, 0, 0, 0, 194, 0>>)

\* one question of type A whose name has a first label of 64 bytes
WireLong ==
    Patch(ZeroBuf, 0, <<18, 52, 1, 0, 0, 1, 0, 0, 0, 0, 0, 0, MaxLabel + 1>>
                      \o Repeat(97, MaxLabel + 1) \o <<1, 99, 0, 0, 1, 0, 1>>)

Wires == {WireOk, WireNoQuestion, WireLoop, WirePastEnd, WireLong}

PAnswer == [NewPacket EXCEPT !.answers = <<ARecord(NameQ, Addr1)>>]
PNxdomain == [NewPacket EXCEPT !.rescode = "NXDOMAIN"]
PNxdomainGlue ==
    [NewPacket EXCEPT !.rescode = "NXDOMAIN",
                      !.authorities = <<NSRecord(ZoneC, NameHost)>>,
                      !.resources = <<ARecord(NameHost, Addr1)>>]
PFailAnswer ==
    [NewPacket EXCEPT !.rescode = "SERVFAIL", !.answers = <<ARecord(NameQ, Addr1)>>]
PGlueRoot ==
    [NewPacket EXCEPT !.authorities = <<NSRecord(ZoneC, NameHost)>>,
                      !.resources = <<ARecord(NameHost, Root)>>]
PGlueOther ==
    [NewPacket EXCEPT !.authorities = <<NSRecord(ZoneC, NameHost)>>,
                      !.resources = <<ARecord(NameHost, Addr1)>>]
PNoGlue == [NewPacket EXCEPT !.authorities = <<NSRecord(ZoneC, NameHost)>>]
PEmpty == NewPacket
PForeign ==
    [NewPacket EXCEPT !.authorities = <<NSRecord(ZoneX, NameHost)>>,
                      !.resources = <<ARecord(NameHost, Addr1)>>]
\* two delegations, "b.c" before "c", each with glue
PTwoZones ==
    [NewPacket EXCEPT !.authorities = <<NSRecord(ZoneBC, NameHostB),
                                        NSRecord(ZoneC, NameHost)>>,
                      !.resources = <<ARecord(NameHost, Addr1),
                                      ARecord(NameHostB, Addr2)>>]

\* replies that fit in 512 bytes with their names compressed: twenty
\* answers and five name servers, and twenty-five answers
PManyRecords ==
    [NewPacket EXCEPT !.answers = Repeat(ARecord(NameQ, Addr1), 20),
                      !.authorities = Repeat(NSRecord(ZoneC, NameHost), 5)]

PManyAnswers == [NewPacket EXCEPT !.answers = Repeat(ARecord(NameQ, Addr1), 25)]

ReplyPackets ==
    {PAnswer, PNxdomain, PNxdomainGlue, PFailAnswer, PGlueRoot, PGlueOther,
     PNoGlue, PEmpty, PForeign, PTwoZones, PManyRecords, PManyAnswers}

Datagram(wire, pkt) == [wire |-> wire, pkt |-> pkt]

Replies ==
    {Datagram(WireOk, p) : p \in ReplyPackets}
    \cup {Datagram(w, PEmpty) : w \in {WireLoop, WirePastEnd}}

Requests == {Datagram(w, PEmpty) : w \in Wires}

\* header.read: the id and the question count of the 12-byte header
HeaderId(b) == b[0] * 256 + b[1]

HeaderQuestions(b) == b[4] * 256 + b[5]

\* for _ in 0..result.header.questions { question.read(buffer)?; push }
RECURSIVE ReadQuestions(_, _, _, _)
ReadQuestions(b, p, n, acc) ==
    LET Push(q) == IF q.st # "ok" THEN q
                   ELSE ReadQuestions(b, q.pos, n - 1, Append(acc, q.val))
    IN  IF n = 0 THEN DecodeResult("ok", p, acc)
        ELSE Push(QuestionRead(b, p, <<>>))

\* header.read: the other three counts
HeaderAnswers(b) == b[6] * 256 + b[7]

HeaderAuthorities(b) == b[8] * 256 + b[9]

HeaderResources(b) == b[10] * 256 + b[11]

\* for _ in 0..count { let rec = DnsRecord::read(buffer)?; push }
RECURSIVE ReadRecords(_, _, _, _)
ReadRecords(b, p, n, acc) ==
    LET Push(r) == IF r.st # "ok" THEN r
                   ELSE ReadRecords(b, r.pos, n - 1, Append(acc, r.val))
    IN  IF n = 0 THEN DecodeResult("ok", p, acc)
        ELSE Push(RecordRead(b, p))

\* DnsPacket::from_buffer on the bytes of a buffer whose cursor is at 0:
\* the header, then the four sections, each read with `?`
DnsPacket_from_buffer(b) ==
    LET AfterResources(qs, an, ns, ar) ==
            IF ar.st # "ok" THEN DecodeResult(ar.st, ar.pos, NoValue)
            ELSE DecodeResult("ok", ar.pos,
                     [counts |-> Counts(HeaderQuestions(b), HeaderAnswers(b),
                                        HeaderAuthorities(b), HeaderResources(b)),
                      questions |-> qs.val, answers |-> an.val,
                      authorities |-> ns.val, resources |-> ar.val])
        AfterAuthorities(qs, an, ns) ==
            IF ns.st # "ok" THEN DecodeResult(ns.st, ns.pos, NoValue)
            ELSE AfterResources(qs, an, ns, ReadRecords(b, ns.pos, HeaderResources(b), <<>>))
        AfterAnswers(qs, an) ==
            IF an.st # "ok" THEN DecodeResult(an.st, an.pos, NoValue)
            ELSE AfterAuthorities(qs, an, ReadRecords(b, an.pos, HeaderAuthorities(b), <<>>))
        AfterQuestions(qs) ==
            IF qs.st # "ok" THEN DecodeResult(qs.st, qs.pos, NoValue)
            ELSE AfterAnswers(qs, ReadRecords(b, qs.pos, HeaderAnswers(b), <<>>))
    IN  AfterQuestions(ReadQuestions(b, HeaderLen, HeaderQuestions(b), <<>>))

\* DnsPacket::from_buffer
from_buffer(d) ==
    LET Result(qs) ==
            IF qs.st # "ok"
            THEN [st |-> qs.st, pkt |-> NoValue]
            ELSE [st |-> "ok",
                  pkt |-> [d.pkt EXCEPT !.id = HeaderId(d.wire), !.questions = qs.val,
                                        !.counts = Counts(Len(qs.val), Len(d.pkt.answers),
                                                          Len(d.pkt.authorities),
                                                          Len(d.pkt.resources))]]
    IN  Result(ReadQuestions(d.wire, HeaderLen, HeaderQuestions(d.wire), <<>>))

(***************************************************************************)
(* server.rs: lookup and recursive_lookup.                                 *)
(***************************************************************************)
\* the packet lookup builds for (qname, qtype)
QueryPacket(qname, qtype) ==
    [NewPacket EXCEPT !.id = 6666, !.recursion_desired = TRUE,
                      !.counts = Counts(1, 0, 0, 0),
                      !.questions = <<[name |-> qname, qtype |-> qtype]>>]

\* the items of one section as write emits them, in the section's order
Emit(part, items) == [i \in DOMAIN items |-> [part |-> part, item |-> items[i]]]

\* a write that emits the header with the counts it held
DnsPacketWrite_StaleCounts(p) ==
    <<[part |-> "header", item |-> [id |-> p.id, counts |-> p.counts]]>>
    \o Emit("question", p.questions) \o Emit("answer", p.answers)
    \o Emit("authority", p.authorities) \o Emit("additional", p.resources)

\* DnsPacket::write: the counts are set from the sections, then the header
\* and the four sections are written
DnsPacketWrite(p) ==
    <<[part |-> "header",
       item |-> [id |-> p.id,
                 counts |-> Counts(Len(p.questions), Len(p.answers),
                                   Len(p.authorities), Len(p.resources))]]>>
    \o Emit("question", p.questions) \o Emit("answer", p.answers)
    \o Emit("authority", p.authorities) \o Emit("additional", p.resources)

\* how a lookup call can go: bind fails, send_to fails, recv_from fails, or
\* a datagram comes back
LookupEvents ==
    {[kind |-> "BindFailure"], [kind |-> "SendFailure"], [kind |-> "RecvFailure"]}
    \cup {[kind |-> "reply", datagram |-> d] : d \in Replies}

\* packet.write(&mut req_buffer): the header, then the question's name
QueryWriteStatus(qname) == write_qname(ZeroBuf, HeaderLen, qname).st

\* a lookup that hands the query to send_to before it looks at the result
\* of the write
lookup_SendsFirst(qname, qtype, ev) ==
    LET Written(wst) ==
            IF ev.kind = "SendFailure"
            THEN [st |-> "SendFailure", pkt |-> NoValue, transmitted |-> FALSE]
            ELSE IF wst # "ok"
            THEN [st |-> wst, pkt |-> NoValue, transmitted |-> TRUE]
            ELSE IF ev.kind = "RecvFailure"
            THEN [st |-> "RecvFailure", pkt |-> NoValue, transmitted |-> TRUE]
            ELSE from_buffer(ev.datagram) @@ [transmitted |-> TRUE]
    IN  IF ev.kind = "BindFailure"
        THEN [st |-> "BindFailure", pkt |-> NoValue, transmitted |-> FALSE]
        ELSE Written(QueryWriteStatus(qname))

\* lookup: bind, write the query, send_to, recv_from, from_buffer, each
\* with `?`; transmitted says whether send_to took the query
lookup(qname, qtype, ev) ==
    LET Written(wst) ==
            IF wst # "ok"
            THEN [st |-> wst, pkt |-> NoValue, transmitted |-> FALSE]
            ELSE IF ev.kind = "SendFailure"
            THEN [st |-> "SendFailure", pkt |-> NoValue, transmitted |-> FALSE]
            ELSE IF ev.kind = "RecvFailure"
            THEN [st |-> "RecvFailure", pkt |-> NoValue, transmitted |-> TRUE]
            ELSE from_buffer(ev.datagram) @@ [transmitted |-> TRUE]
    IN  IF ev.kind = "BindFailure"
        THEN [st |-> "BindFailure", pkt |-> NoValue, transmitted |-> FALSE]
        ELSE Written(QueryWriteStatus(qname))

\* a recursive_lookup call in progress: its arguments, its ns, and the
\* response it holds while a nested call resolves a name server's host
Frame(qname, qtype) == [qname |-> qname, qtype |-> qtype, ns |-> Root, response |-> NoValue]

\* !response.answers.is_empty() && response.header.rescode == ResultCode::NOERROR
IsAnswer(reply) == reply.answers # <<>> /\ reply.rescode = "NOERROR"

\* the NXDOMAIN test left out
IsNxdomain_Never(reply) == FALSE

\* response.header.rescode == ResultCode::NXDOMAIN
IsNxdomain(reply) == reply.rescode = "NXDOMAIN"

\* one pass of the loop body after lookup returned Ok(reply)
Decide(qname, reply) ==
    LET Unresolved(host) ==
            IF host = None THEN [do |-> "return", site |-> "no_ns"]
            ELSE [do |-> "recurse", host |-> host.val]
        Resolved(new_ns) ==
            IF new_ns # None THEN [do |-> "continue", ns |-> new_ns.val]
            ELSE Unresolved(get_unresolved_ns(reply, qname))
    IN  IF IsAnswer(reply) THEN [do |-> "return", site |-> "answer"]
        ELSE IF IsNxdomain(reply) THEN [do |-> "return", site |-> "nxdomain"]
        ELSE Resolved(get_resolved_ns(reply, qname))

NoOutcome == [st |-> "none", pkt |-> NoValue, site |-> "none"]

\* giving up reported as a failure instead of the reply held
GiveUp_Fails(held, site) == [st |-> "NoDelegationProgress", pkt |-> NoValue, site |-> site]

\* None => return Ok(response) and the else branch of get_random_a:
\* the call gives up and returns the reply it holds
GiveUp(held, site) == [st |-> "ok", pkt |-> held, site |-> site]

\* A call returns Ok(pkt) to its callers (outermost first): the caller
\* takes the first address of pkt as its ns and loops, or gives up in turn.
RECURSIVE ReturnTo(_, _, _)
ReturnTo(callers, pkt, site) ==
    LET GaveUp(rest, g) ==
            IF g.st = "ok" THEN ReturnTo(rest, g.pkt, g.site)
            ELSE [stack |-> <<>>, outcome |-> g]
        Resume(caller, rest, a) ==
            IF a # None
            THEN [stack |-> Append(rest, [caller EXCEPT !.ns = a.val, !.response = NoValue]),
                  outcome |-> NoOutcome]
            ELSE GaveUp(rest, GiveUp(caller.response, "no_addr"))
    IN  IF callers = <<>>
        THEN [stack |-> <<>>, outcome |-> [st |-> "ok", pkt |-> pkt, site |-> site]]
        ELSE Resume(callers[Len(callers)], SubSeq(callers, 1, Len(callers) - 1),
                    get_random_a(pkt))

\* the failed lookup dropped and the call left active
Propagate_Swallowed(calls, err) == [stack |-> calls, outcome |-> NoOutcome]

\* lookup(..)? and recursive_lookup(..)? : an Err leaves every active call
Propagate(calls, err) ==
    [stack |-> <<>>, outcome |-> [st |-> err, pkt |-> NoValue, site |-> "error"]]

\* The innermost active call makes one lookup and acts on what it returns.
HopResult(calls, r) ==
    LET Did(depth, do, pkt, site) ==
            [ret |-> [depth |-> depth, do |-> do, pkt |-> pkt, site |-> site]]
        Returned(depth, callers, g) ==
            (IF g.st = "ok" THEN ReturnTo(callers, g.pkt, g.site)
             ELSE [stack |-> <<>>, outcome |-> g])
            @@ Did(depth, "return", g.pkt, g.site)
        Act(depth, f, callers, d) ==
            CASE d.do = "return" ->
                    Returned(depth, callers,
                             IF d.site = "no_ns" THEN GiveUp(r.pkt, d.site)
                             ELSE [st |-> "ok", pkt |-> r.pkt, site |-> d.site])
              [] d.do = "continue" ->
                    [stack |-> Append(callers, [f EXCEPT !.ns = d.ns]),
                     outcome |-> NoOutcome]
                    @@ Did(depth, "continue", NoValue, "none")
              [] d.do = "recurse" ->
                    [stack |-> Append(Append(callers, [f EXCEPT !.response = r.pkt]),
                                      Frame(d.host, TypeA)),
                     outcome |-> NoOutcome]
                    @@ Did(depth, "recurse", NoValue, "none")
    IN  IF r.st # "ok"
        THEN Propagate(calls, r.st) @@ Did(Len(calls), "error", NoValue, "error")
        ELSE Act(Len(calls), calls[Len(calls)], SubSeq(calls, 1, Len(calls) - 1),
                 Decide(calls[Len(calls)].qname, r.pkt))

(***************************************************************************)
(* server.rs: handle_query and the accept loop of main.                    *)
(***************************************************************************)
\* the bytes write_qname emits for a name
NameLen(name) == write_qname(ZeroBuf, 0, name).pos

RecordLen(r) ==
    IF r.tag = "A" THEN NameLen(r.domain) + 10 + 4
    ELSE NameLen(r.domain) + 10 + NameLen(r.host)

RECURSIVE SumLen(_)
SumLen(recs) == IF recs = <<>> THEN 0 ELSE RecordLen(Head(recs)) + SumLen(Tail(recs))

RECURSIVE QuestionsLen(_)
QuestionsLen(qs) ==
    IF qs = <<>> THEN 0 ELSE NameLen(Head(qs).name) + 4 + QuestionsLen(Tail(qs))

\* the bytes DnsPacket::write needs for a packet
EncodedLen(p) ==
    HeaderLen + QuestionsLen(p.questions) + SumLen(p.answers)
    + SumLen(p.authorities) + SumLen(p.resources)

\* the response packet handle_query creates for a request
ResponseHeader(req) ==
    [NewPacket EXCEPT !.id = req.id, !.recursion_desired = TRUE,
                      !.recursion_available = TRUE, !.response = TRUE]

\* a response that leaves out the additional section
ResponseFor_DropsAdditional(req, question, result) ==
    IF result.st = "ok"
    THEN [ResponseHeader(req) EXCEPT !.questions = <<question>>,
                                     !.rescode = result.pkt.rescode,
                                     !.answers = result.pkt.answers,
                                     !.authorities = result.pkt.authorities]
    ELSE [ResponseHeader(req) EXCEPT !.rescode = "SERVFAIL"]

\* if let Ok(result) = recursive_lookup(..) { .. } else { SERVFAIL }
ResponseFor(req, question, result) ==
    IF result.st = "ok"
    THEN [ResponseHeader(req) EXCEPT !.questions = <<question>>,
                                     !.rescode = result.pkt.rescode,
                                     !.answers = result.pkt.answers,
                                     !.authorities = result.pkt.authorities,
                                     !.resources = result.pkt.resources]
    ELSE [ResponseHeader(req) EXCEPT !.rescode = "SERVFAIL"]

\* the two result codes exchanged
NoQuestionCode_Servfail == "SERVFAIL"

\* } else { packet.header.rescode = ResultCode::FORMERR; }
NoQuestionCode == "FORMERR"

NoResponse == [st |-> "none", pkt |-> NoValue, wire |-> <<>>]

\* packet.write(&mut res_buffer)?; get_range(0, len)?; socket.send_to(data, src)?
Respond(packet, sendOk) ==
    LET Send(len) ==
            IF len > Cap THEN "WriteError"
            ELSE IF get_range(0, len) # "ok" THEN "RangeError"
            ELSE IF ~sendOk THEN "SendFailure"
            ELSE "sent"
    IN  [st |-> Send(EncodedLen(packet)), pkt |-> packet, wire |-> DnsPacketWrite(packet)]

\* request.questions.pop()
Pop(questions) == questions[Len(questions)]

NoReply == [st |-> "none", pkt |-> NoValue]

NoRet == [depth |-> 0, do |-> "none", pkt |-> NoValue, site |-> "none"]

InitServer ==
    /\ phase = "idle"
    /\ request = NoValue
    /\ stack = <<>>
    /\ sent = 0
    /\ lastQuery = NoValue
    /\ lastReply = NoReply
    /\ ret = NoRet
    /\ outcome = NoOutcome
    /\ response = NoResponse

Fresh ==
    /\ sent' = 0
    /\ lastQuery' = NoValue
    /\ lastReply' = NoReply
    /\ ret' = NoRet
    /\ outcome' = NoOutcome

\* recv_from fails: handle_query returns the error, main prints it and loops
ReceiveFails ==
    /\ phase = "idle"
    /\ phase' = "idle"
    /\ request' = NoValue
    /\ response' = [st |-> "RecvFailure", pkt |-> NoValue]
    /\ stack' = <<>>
    /\ Fresh
    /\ UNCHANGED cursorVars

\* a datagram arrives and handle_query runs up to its first upstream query
Receive ==
    /\ phase = "idle"
    /\ \E d \in Requests, sendOk \in BOOLEAN :
       \E req \in {from_buffer(d)} :
         /\ Fresh
         /\ IF req.st = "panic"
            THEN /\ phase' = "crashed"
                 /\ request' = NoValue
                 /\ response' = NoResponse
                 /\ stack' = <<>>
            ELSE IF req.st # "ok"
            THEN /\ phase' = "idle"
                 /\ request' = NoValue
                 /\ response' = [st |-> req.st, pkt |-> NoValue]
                 /\ stack' = <<>>
            ELSE IF req.pkt.questions = <<>>
            THEN /\ phase' = "idle"
                 /\ request' = req.pkt
                 /\ response' =
                        Respond([ResponseHeader(req.pkt) EXCEPT !.rescode = NoQuestionCode], sendOk)
                 /\ stack' = <<>>
            ELSE /\ phase' = "resolving"
                 /\ request' = req.pkt
                 /\ response' = NoResponse
                 /\ \E question \in {Pop(req.pkt.questions)} :
                        stack' = <<Frame(question.name, question.qtype)>>
    /\ UNCHANGED cursorVars

\* the innermost recursive_lookup call makes its next lookup; when the
\* outermost call returns, handle_query answers the request
Hop ==
    /\ phase = "resolving"
    /\ sent < MaxQueries
    /\ \E ev \in LookupEvents, sendOk \in BOOLEAN :
       \E f \in {stack[Len(stack)]} :
       \E l \in {lookup(f.qname, f.qtype, ev)} :
       \E h \in {HopResult(stack, [st |-> l.st, pkt |-> l.pkt])} :
         /\ Len(h.stack) <= MaxDepth
         /\ sent' = IF l.transmitted THEN sent + 1 ELSE sent
         /\ lastQuery' = IF l.transmitted
                         THEN [server |-> <<f.ns, 53>>, pkt |-> QueryPacket(f.qname, f.qtype),
                               wire |-> DnsPacketWrite(QueryPacket(f.qname, f.qtype))]
                         ELSE lastQuery
         /\ lastReply' = [st |-> l.st, pkt |-> l.pkt]
         /\ ret' = h.ret
         /\ stack' = h.stack
         /\ outcome' = h.outcome
         /\ IF l.st = "panic"
            THEN phase' = "crashed" /\ response' = NoResponse
            ELSE IF h.outcome = NoOutcome
            THEN phase' = "resolving" /\ response' = NoResponse
            ELSE /\ phase' = "idle"
                 /\ response' =
                        Respond(ResponseFor(request, Pop(request.questions), h.outcome), sendOk)
    /\ UNCHANGED <<request, cursorVars>>

Next == ReceiveFails \/ Receive \/ Hop

Init ==
    /\ InitServer
    /\ buf = ZeroBuf
    /\ pos = 0
    /\ op = OpRecord("new", "ok", 0, 0, NoValue)
    /\ nops = 0

Spec == Init /\ [][Next]_vars

(***************************************************************************)
(* SpecCursor: cursor operations applied one after another.                *)
(***************************************************************************)
InitCursor ==
    /\ buf \in ReceivedBufs
    /\ pos \in {0} \cup Positions(buf)
    /\ op = OpRecord("new", "ok", 0, 0, NoValue)
    /\ nops = 0
    /\ InitServer

\* an operation can be applied: the buffer exists (no panic unwound it)
Usable == op.st # "panic" /\ nops < MaxOps

Read ==
    /\ Usable
    /\ LET r == ReadByte(buf, pos) IN
       /\ pos' = r.pos
       /\ op' = OpRecord("read", r.st, pos, 0, r.val)
    /\ nops' = nops + 1
    /\ UNCHANGED buf
    /\ UNCHANGED serverVars

ReadU16 ==
    /\ Usable
    /\ LET r == read_u16(buf, pos) IN
       /\ pos' = r.pos
       /\ op' = OpRecord("read_u16", r.st, pos, 0, r.val)
    /\ nops' = nops + 1
    /\ UNCHANGED buf
    /\ UNCHANGED serverVars

ReadU32 ==
    /\ Usable
    /\ LET r == read_u32(buf, pos) IN
       /\ pos' = r.pos
       /\ op' = OpRecord("read_u32", r.st, pos, 0, r.val)
    /\ nops' = nops + 1
    /\ UNCHANGED buf
    /\ UNCHANGED serverVars

Get ==
    /\ Usable
    /\ \E p \in {Cap - 1, Cap} :
         LET r == get(buf, pos, p) IN
         op' = OpRecord("get", r.st, pos, p, r.val)
    /\ nops' = nops + 1
    /\ UNCHANGED <<buf, pos>>
    /\ UNCHANGED serverVars

GetRange ==
    /\ Usable
    /\ \E a \in RangeArgs :
         op' = OpRecord("get_range", get_range(a[1], a[2]), pos, a, NoValue)
    /\ nops' = nops + 1
    /\ UNCHANGED <<buf, pos>>
    /\ UNCHANGED serverVars

Step ==
    /\ Usable
    /\ \E n \in StepSizes :
         /\ pos' = step(pos, n)
         /\ op' = OpRecord("step", "ok", pos, n, NoValue)
    /\ nops' = nops + 1
    /\ UNCHANGED buf
    /\ UNCHANGED serverVars

Seek ==
    /\ Usable
    /\ \E p \in {12, Cap + 1} :
         /\ pos' = p
         /\ op' = OpRecord("seek", "ok", pos, p, NoValue)
    /\ nops' = nops + 1
    /\ UNCHANGED buf
    /\ UNCHANGED serverVars

WriteU8 ==
    /\ Usable
    /\ \E v \in WrittenValues :
         LET r == write_u8(buf, pos, v % 256) IN
         /\ buf' = r.buf
         /\ pos' = r.pos
         /\ op' = OpRecord("write_u8", r.st, pos, v % 256, NoValue)
    /\ nops' = nops + 1
    /\ UNCHANGED serverVars

WriteU16 ==
    /\ Usable
    /\ \E v \in WrittenValues :
         LET r == write_u16(buf, pos, v) IN
         /\ buf' = r.buf
         /\ pos' = r.pos
         /\ op' = OpRecord("write_u16", r.st, pos, v, NoValue)
    /\ nops' = nops + 1
    /\ UNCHANGED serverVars

WriteU32 ==
    /\ Usable
    /\ \E v \in {<<192, 0, 255, 1>>} :
         LET r == write_u32(buf, pos, v) IN
         /\ buf' = r.buf
         /\ pos' = r.pos
         /\ op' = OpRecord("write_u32", r.st, pos, v, NoValue)
    /\ nops' = nops + 1
    /\ UNCHANGED serverVars

WriteQname ==
    /\ Usable
    /\ \E name \in WrittenNames :
         LET r == write_qname(buf, pos, name) IN
         /\ buf' = r.buf
         /\ pos' = r.pos
         /\ op' = OpRecord("write_qname", r.st, pos, name, NoValue)
    /\ nops' = nops + 1
    /\ UNCHANGED serverVars

\* a name is written at the cursor and read back from where it was
\* written: write_qname, the cursor set back to the start, read_qname
WriteReadQname ==
    /\ Usable
    /\ \E name \in RoundTripNames :
       \E w \in {write_qname(buf, pos, name)} :
       \E r \in {IF w.st = "ok" THEN read_qname(w.buf, pos, <<>>)
                  ELSE QnameResult("none", w.pos, <<>>, 0)} :
         /\ buf' = w.buf
         /\ pos' = r.pos
         /\ op' = OpRecord("write_qname;read_qname",
                           IF w.st = "ok" THEN r.st ELSE w.st, pos, name,
                           [written |-> w.st, end |-> w.pos, out |-> r.out])
    /\ nops' = nops + 1
    /\ UNCHANGED serverVars

ReadQname ==
    /\ Usable
    /\ LET r == read_qname(buf, pos, <<>>) IN
       /\ pos' = r.pos
       /\ op' = OpRecord("read_qname", r.st, pos, r.jumps, r.out)
    /\ nops' = nops + 1
    /\ UNCHANGED buf
    /\ UNCHANGED serverVars

ReadQuestion ==
    /\ Usable
    /\ LET r == QuestionRead(buf, pos, <<>>) IN
       /\ pos' = r.pos
       /\ op' = OpRecord("DnsQuestion::read", r.st, pos, 0, r.val)
    /\ nops' = nops + 1
    /\ UNCHANGED buf
    /\ UNCHANGED serverVars

ReadRecord ==
    /\ Usable
    /\ LET r == RecordRead(buf, pos) IN
       /\ pos' = r.pos
       /\ op' = OpRecord("DnsRecord::read", r.st, pos, 0, r.val)
    /\ nops' = nops + 1
    /\ UNCHANGED buf
    /\ UNCHANGED serverVars

\* DnsPacket::from_buffer on a buffer as it was received
FromBuffer ==
    /\ Usable
    /\ nops = 0
    /\ pos = 0
    /\ \E r \in {DnsPacket_from_buffer(buf)} :
       /\ pos' = r.pos
       /\ op' = OpRecord("DnsPacket::from_buffer", r.st, pos, 0, r.val)
    /\ nops' = nops + 1
    /\ UNCHANGED buf
    /\ UNCHANGED serverVars

NextCursor ==
    \/ Read \/ ReadU16 \/ ReadU32 \/ Get \/ GetRange \/ Step \/ Seek
    \/ WriteU8 \/ WriteU16 \/ WriteU32 \/ WriteQname \/ WriteReadQname
    \/ ReadQname \/ ReadQuestion \/ ReadRecord \/ FromBuffer

SpecCursor == InitCursor /\ [][NextCursor]_vars

(***************************************************************************)
(* Properties.                                                             *)
(***************************************************************************)
HopCap == MaxQueries - 2

\* C1: recursive_lookup sends at most a fixed maximum number of upstream
\* queries for one request (the hop cap, 20), whatever the replies are, and
\* fails with NoDelegationProgress beyond it.
C1_HopCapRespected == sent <= HopCap

\* C2: after any sequence of cursor operations the cursor position never
\* exceeds 512.
C2_PosWithinCapacity == pos <= Cap

\* C3: a byte access at an index >= 512 fails with an end-of-buffer error:
\* get(p) with p >= 512 returns the error, and read_qname (alone or inside
\* DnsQuestion::read and DnsRecord::read) never indexes out of range.
C3_AccessPastEndIsError ==
    /\ (op.name = "get" /\ op.arg.get >= Cap) => op.st = "BufferBounds"
    /\ op.name \in {"read_qname", "DnsQuestion::read", "DnsRecord::read"}
           => op.st # "panic"

\* the two bytes at p are a compression pointer, and its target
IsPointerAt(b, p) == p + 1 < Cap /\ b[p] >= 192

TargetAt(b, p) == (b[p] - 192) * 256 + b[p + 1]

\* the pointer at p points to itself, or to a pointer that points back to p
LoopsAt(b, p) ==
    /\ IsPointerAt(b, p)
    /\ \/ TargetAt(b, p) = p
       \/ /\ IsPointerAt(b, TargetAt(b, p))
          /\ TargetAt(b, TargetAt(b, p)) = p

\* C4: read_qname on a name whose compression pointers loop ends with the
\* malformed-name (jump limit) error, and a name it decodes took at most
\* max_jumps jumps.
C4_LoopIsMalformedName ==
    op.name = "read_qname" =>
        /\ op.st # "hang"
        /\ op.st = "ok" => op.arg.read_qname <= max_jumps
        /\ LoopsAt(buf, op.at) => op.st = "MalformedName"

\* C5: get_range(start, len) fails exactly when start + len exceeds 512.
C5_RangeFailsExactlyPastCapacity ==
    op.name = "get_range" =>
        (op.st = "ok" <=> op.arg.get_range[1] + op.arg.get_range[2] <= Cap)

\* a lookup call failed: transport failure or the reply did not decode
LookupFailed == lastReply.st \notin {"ok", "none"}

\* C6: when a lookup fails inside handle_query (transport failure, or the
\* upstream reply does not decode), a response with result code SERVFAIL is
\* produced and the accept loop goes on to the next datagram.
C6_FailureAnsweredServfail ==
    LookupFailed =>
        /\ phase = "idle"
        /\ response.pkt # NoValue
        /\ response.pkt.rescode = "SERVFAIL"

\* two packets with the same result code and record sections
SameRecords(p, q) ==
    /\ p.rescode = q.rescode
    /\ p.answers = q.answers
    /\ p.authorities = q.authorities
    /\ p.resources = q.resources

\* the outermost recursive_lookup ran out of delegations
Exhausted == outcome.site \in {"no_ns", "no_addr"}

\* C7 (as stated): when resolution is exhausted the lookup fails with
\* NoDelegationProgress and the response carries SERVFAIL.
C7_ExhaustedIsFailure ==
    Exhausted =>
        /\ outcome.st = "NoDelegationProgress"
        /\ response.pkt.rescode = "SERVFAIL"

\* C7 (amended): when resolution is exhausted recursive_lookup returns Ok
\* with the reply the outermost call last received, which is neither an
\* answer nor NXDOMAIN and has no glued name server for the question, and
\* the response carries that reply's result code and record sections.
C7_ExhaustedReturnsLastReply ==
    Exhausted =>
        /\ outcome.st = "ok"
        /\ \E p \in ReplyPackets : SameRecords(p, outcome.pkt)
        /\ ~(outcome.pkt.answers # <<>> /\ outcome.pkt.rescode = "NOERROR")
        /\ outcome.pkt.rescode # "NXDOMAIN"
        /\ get_resolved_ns(outcome.pkt, NameQ) = None
        /\ outcome.site = "no_ns" =>
               outcome.pkt = lastReply.pkt /\ get_unresolved_ns(outcome.pkt, NameQ) = None
        /\ outcome.site = "no_addr" => get_unresolved_ns(outcome.pkt, NameQ) # None
        /\ phase = "idle"
        /\ SameRecords(response.pkt, outcome.pkt)

\* the nested sub-lookup yielded no address and the response went out
C7_Witness ==
    /\ outcome.site = "no_addr"
    /\ response.st = "sent"
    /\ response.pkt.rescode = "NOERROR"

\* the last reply is NXDOMAIN, or has answers and result code NOERROR
TerminalReply ==
    /\ lastReply.st = "ok"
    /\ \/ lastReply.pkt.rescode = "NXDOMAIN"
       \/ lastReply.pkt.answers # <<>> /\ lastReply.pkt.rescode = "NOERROR"

\* C8: a reply that is NXDOMAIN, or has answers and result code NOERROR,
\* ends the recursive_lookup call that received it: the call returns Ok with
\* exactly that reply and is no longer active, so it sends no further query;
\* the outermost call's return ends the resolution.
C8_TerminalReplyReturned ==
    TerminalReply =>
        /\ ret.do = "return"
        /\ ret.pkt = lastReply.pkt
        /\ ret.site \in {"answer", "nxdomain"}
        /\ Len(stack) < ret.depth
        /\ ret.depth = 1 =>
               /\ phase = "idle"
               /\ outcome.st = "ok"
               /\ outcome.pkt = lastReply.pkt

\* an NXDOMAIN reply that carries a delegation with glue was returned as
\* the result and passed on to the client
C8_Witness ==
    /\ lastReply.st = "ok"
    /\ SameRecords(lastReply.pkt, PNxdomainGlue)
    /\ ret.depth = 1
    /\ outcome.st = "ok"
    /\ response.st = "sent"
    /\ response.pkt.rescode = "NXDOMAIN"

\* C9: every query sent upstream has the recursion-desired flag cleared.
C9_QueriesAreIterative ==
    lastQuery # NoValue => lastQuery.pkt.recursion_desired = FALSE

\* C10: a lookup that fails (send or receive error, or a reply that does
\* not decode) at any depth ends every active recursive_lookup call with
\* that failure: no call stays active to send another query or to retry.
C10_FailureAborts ==
    LookupFailed =>
        /\ ret.do = "error"
        /\ stack = <<>>
        /\ phase # "resolving"
        /\ outcome.st = lastReply.st
        /\ outcome.pkt = NoValue

\* a receive failure inside a nested sub-lookup ended the resolution
C10_Witness ==
    /\ lastReply.st = "RecvFailure"
    /\ ret.depth = 2
    /\ phase = "idle"
    /\ response.st = "sent"
    /\ response.pkt.rescode = "SERVFAIL"

\* C11: a request that decodes to zero questions is answered with result
\* code FORMERR, and handling it never invokes the resolver: no
\* recursive_lookup call becomes active and no upstream query is sent.
C11_NoQuestionIsFormerr ==
    (request # NoValue /\ request.questions = <<>>) =>
        /\ phase = "idle"
        /\ stack = <<>>
        /\ sent = 0
        /\ lastQuery = NoValue
        /\ response.pkt # NoValue
        /\ response.pkt.rescode = "FORMERR"

\* the request without a question was answered
C11_Witness ==
    /\ request # NoValue
    /\ request.questions = <<>>
    /\ response.st = "sent"

\* C12: every response handle_query builds echoes the request's id with
\* the response, recursion-desired and recursion-available flags set; when
\* recursive_lookup succeeded its result code and its answer, authority
\* and additional sections are those of the result, in the same order.
C12_ResponseEchoesRequestAndResult ==
    response.pkt # NoValue =>
        /\ response.pkt.id = request.id
        /\ response.pkt.response
        /\ response.pkt.recursion_desired
        /\ response.pkt.recursion_available
        /\ outcome.st = "ok" =>
               /\ response.pkt.rescode = outcome.pkt.rescode
               /\ response.pkt.answers = outcome.pkt.answers
               /\ response.pkt.authorities = outcome.pkt.authorities
               /\ response.pkt.resources = outcome.pkt.resources

\* an upstream NXDOMAIN with authority and additional records went out
\* under the request's id
C12_Witness ==
    /\ response.st = "sent"
    /\ response.pkt.id = HeaderId(WireOk)
    /\ outcome.st = "ok"
    /\ response.pkt.rescode = "NXDOMAIN"
    /\ response.pkt.authorities # <<>>
    /\ response.pkt.resources # <<>>

\* zone is a suffix of qname that starts at a label of qname
LabelSuffix(zone, qname) ==
    \/ zone = <<>>
    \/ zone = qname
    \/ /\ Len(zone) < Len(qname)
       /\ SubSeq(qname, Len(qname) - Len(zone) + 1, Len(qname)) = zone
       /\ qname[Len(qname) - Len(zone)] = Dot

\* the name the last upstream query asked for
AskedName == lastQuery.pkt.questions[1].name

\* the NS records of the last reply whose zone is a whole-label suffix of
\* the name asked for, in authority order
WholeLabelNs ==
    SelectSeq(lastReply.pkt.authorities,
              LAMBDA r : r.tag = "NS" /\ LabelSuffix(r.domain, AskedName))

\* the additional-section A records of the last reply owned by host
GlueOf(host) ==
    SelectSeq(lastReply.pkt.resources, LAMBDA a : a.tag = "A" /\ a.domain = host)

\* C13: get_ns(qname) yields exactly the authority NS records whose zone
\* is a suffix of qname on whole-label boundaries, so the next hop (the
\* glue address taken by get_resolved_ns, the host taken by
\* get_unresolved_ns) always comes from such a record.
C13_DelegationOnWholeLabels ==
    lastReply.st = "ok" =>
        /\ get_ns(lastReply.pkt, AskedName) = WholeLabelNs
        /\ ret.do = "continue" =>
               \E i \in DOMAIN WholeLabelNs :
                   \E j \in DOMAIN GlueOf(WholeLabelNs[i].host) :
                       GlueOf(WholeLabelNs[i].host)[j].addr = stack[Len(stack)].ns
        /\ ret.do = "recurse" =>
               \E i \in DOMAIN WholeLabelNs :
                   WholeLabelNs[i].host = stack[Len(stack)].qname

\* the matching NS records that have glue, in authority order
GluedNs == SelectSeq(WholeLabelNs, LAMBDA r : GlueOf(r.host) # <<>>)

\* C14: for a reply that delegates (a matching NS record, no answer, not
\* NXDOMAIN), the next server is the address of the first additional A
\* record owned by the host of a matching NS record, NS records taken in
\* authority order; without such glue get_resolved_ns is none and
\* get_unresolved_ns gives the host of the first matching NS record, which
\* is the name looked up next.
C14_FirstGlueOrFirstHost ==
    (lastReply.st = "ok" /\ ret.do \in {"continue", "recurse"} /\ WholeLabelNs # <<>>) =>
        IF GluedNs # <<>>
        THEN /\ get_resolved_ns(lastReply.pkt, AskedName)
                    = Some(GlueOf(GluedNs[1].host)[1].addr)
             /\ ret.do = "continue"
             /\ stack[Len(stack)].ns = GlueOf(GluedNs[1].host)[1].addr
        ELSE /\ get_resolved_ns(lastReply.pkt, AskedName) = None
             /\ get_unresolved_ns(lastReply.pkt, AskedName) = Some(WholeLabelNs[1].host)
             /\ ret.do = "recurse"
             /\ stack[Len(stack)].qname = WholeLabelNs[1].host

\* The name encoded at offset p, read off the wire format: labels of 1 to
\* 63 ASCII bytes, ended by a zero byte or by a pointer to an earlier
\* offset, with at most `pointers` pointers on the way.  labels are the
\* labels in order, end is the offset after the encoding at p itself.
NotAName == [ok |-> FALSE, labels |-> <<>>, end |-> 0]

RECURSIVE NameAt(_, _, _)
NameAt(b, p, pointers) ==
    LET Through(n) == [n EXCEPT !.end = p + 2]
        After(label, n) == [n EXCEPT !.labels = <<label>> \o n.labels]
    IN  IF p >= Cap THEN NotAName
        ELSE IF b[p] = 0 THEN [ok |-> TRUE, labels |-> <<>>, end |-> p + 1]
        ELSE IF b[p] >= 192
        THEN IF pointers = 0 \/ p + 1 >= Cap \/ TargetAt(b, p) >= p
             THEN NotAName
             ELSE Through(NameAt(b, TargetAt(b, p), pointers - 1))
        ELSE IF b[p] > MaxLabel \/ p + b[p] >= Cap
                \/ \E i \in 1 .. b[p] : b[p + i] >= 128
        THEN NotAName
        ELSE After([i \in 1 .. b[p] |-> b[p + i]], NameAt(b, p + 1 + b[p], pointers))

\* the labels joined by dots, letters A..Z folded to lower case
RECURSIVE Dotted(_)
Dotted(labels) ==
    LET Fold(label) == [i \in DOMAIN label |->
                           IF label[i] \in 65 .. 90 THEN label[i] + 32 ELSE label[i]]
    IN  IF labels = <<>> THEN <<>>
        ELSE IF Len(labels) = 1 THEN Fold(labels[1])
        ELSE Fold(labels[1]) \o <<Dot>> \o Dotted(Tail(labels))

\* C15: read_qname on a name made of labels followed by a zero byte or by a
\* compression pointer to an earlier name returns the fully expanded
\* lowercase dotted name (its own labels, then those of the name the
\* pointer leads to) and leaves the cursor two bytes past the first pointer
\* met, or just past the zero byte when no pointer is met.
C15_CompressedNameExpands ==
    (op.name = "read_qname" /\ NameAt(buf, op.at, max_jumps).ok) =>
        /\ op.st = "ok"
        /\ op.val.read_qname = Dotted(NameAt(buf, op.at, max_jumps).labels)
        /\ pos = NameAt(buf, op.at, max_jumps).end
\* The record encoded at offset p, read off the wire format: the owner
\* name, then type, class, ttl and rdlength, 10 bytes, then the payload.
OwnerAt(b, p) == NameAt(b, p, max_jumps)

U16At(b, i) == b[i] * 256 + b[i + 1]

\* a record header lies at p: a name and the 10 bytes after it
RecordHeaderAt(b, p) == OwnerAt(b, p).ok /\ OwnerAt(b, p).end + 10 <= Cap

TypeAt(b, p) == U16At(b, OwnerAt(b, p).end)

TtlAt(b, p) == [i \in 1 .. 4 |-> b[OwnerAt(b, p).end + 3 + i]]

RdLengthAt(b, p) == U16At(b, OwnerAt(b, p).end + 8)

\* where the payload starts
RdataAt(b, p) == OwnerAt(b, p).end + 10

\* C16: a record of a known type decoded by DnsRecord::read consumed as
\* many payload bytes as the rdlength on the wire says: after an A record
\* the cursor is rdlength bytes past the end of the rdlength field.
C16_KnownTypeConsumesRdLength ==
    (/\ op.name = "DnsRecord::read"
     /\ op.st = "ok"
     /\ RecordHeaderAt(buf, op.at)
     /\ TypeAt(buf, op.at) = 1) =>
        pos = RdataAt(buf, op.at) + RdLengthAt(buf, op.at)

\* the A record that starts at p with a four-byte payload
ARecordAt(b, p) ==
    [tag |-> "A", domain |-> Dotted(OwnerAt(b, p).labels),
     addr |-> [i \in 1 .. 4 |-> b[RdataAt(b, p) + i - 1]], ttl |-> TtlAt(b, p)]

\* a record of an unrecognized type was just decoded
SkippedUnknown ==
    /\ op.name = "DnsRecord::read"
    /\ op.st = "ok"
    /\ op.val["DnsRecord::read"].tag = "UNKNOWN"

\* C17: decoding a record of an unrecognized type with rdlength N succeeds
\* whatever the payload is, leaves the cursor N bytes past the end of the
\* rdlength field and keeps the raw type code and N; a well-formed A record
\* decoded next has the value its own bytes give.
C17_UnknownTypeSkipped ==
    /\ [](  (/\ op.name = "DnsRecord::read"
             /\ RecordHeaderAt(buf, op.at)
             /\ TypeAt(buf, op.at) # 1) =>
                /\ op.st = "ok"
                /\ pos = RdataAt(buf, op.at) + RdLengthAt(buf, op.at)
                /\ op.val["DnsRecord::read"] =
                       [tag |-> "UNKNOWN", domain |-> Dotted(OwnerAt(buf, op.at).labels),
                        qtype |-> TypeAt(buf, op.at),
                        data_len |-> RdLengthAt(buf, op.at),
                        ttl |-> TtlAt(buf, op.at)])
    /\ [][ (/\ SkippedUnknown
            /\ op'.name = "DnsRecord::read"
            /\ RecordHeaderAt(buf, pos)
            /\ TypeAt(buf, pos) = 1
            /\ RdLengthAt(buf, pos) = 4
            /\ RdataAt(buf, pos) + 4 <= Cap) =>
                /\ op'.st = "ok"
                /\ op'.val["DnsRecord::read"] = ARecordAt(buf, pos)
                /\ pos' = RdataAt(buf, pos) + 4 ]_vars

\* the A record at 53 was decoded right after the record of type 99 at 37,
\* whose payload holds the bytes of a compression pointer
C17_Witness ==
    /\ buf = BufMessage
    /\ nops = 2
    /\ op.name = "DnsRecord::read"
    /\ op.at = 53
    /\ op.st = "ok"
    /\ op.val["DnsRecord::read"].addr = <<10, 0, 0, 2>>
    /\ pos = 69

\* the operation wrote a name and read it back
RoundTrip == op.name = "write_qname;read_qname"

WrittenName == op.arg["write_qname;read_qname"]

ReadBack == op.val["write_qname;read_qname"]

\* C18 (as stated): for a name made of labels of at most 63 bytes,
\* write_qname followed by read_qname from the same start position returns
\* the same name and leaves the cursor where the write ended.
C18_NameRoundTrips ==
    (/\ RoundTrip
     /\ ReadBack.written = "ok"
     /\ \A i \in DOMAIN Split(WrittenName) : Len(Split(WrittenName)[i]) <= MaxLabel) =>
        /\ op.st = "ok"
        /\ ReadBack.out = WrittenName
        /\ pos = ReadBack.end

\* C18 (amended): for a name made of labels of 1 to 63 bytes that
\* write_qname could write, read_qname from the same start position
\* returns the name with its letters folded to lower case and leaves the
\* cursor where the write ended.
C18_NameRoundTripsLowercase ==
    (/\ RoundTrip
     /\ ReadBack.written = "ok"
     /\ \A i \in DOMAIN Split(WrittenName) :
            Len(Split(WrittenName)[i]) \in 1 .. MaxLabel) =>
        /\ op.st = "ok"
        /\ ReadBack.out = [i \in DOMAIN WrittenName |->
                              IF WrittenName[i] \in 65 .. 90
                              THEN WrittenName[i] + 32 ELSE WrittenName[i]]
        /\ pos = ReadBack.end

\* "a.B" was written at offset 500 and read back as "a.b"
C18_Witness ==
    /\ RoundTrip
    /\ op.at = 500
    /\ WrittenName = <<97, Dot, 66>>
    /\ op.st = "ok"
    /\ ReadBack.out = <<97, Dot, 98>>
    /\ pos = 505

\* the name has a label of 64 bytes or more
HasLongLabel(name) ==
    \E i \in DOMAIN Split(name) : Len(Split(name)[i]) > MaxLabel

\* C19: a lookup for a name with a label of 64 or more bytes fails with
\* the label-too-long error (unless the socket could not even be bound)
\* and performs no send: the count of transmitted queries and the last
\* transmitted query stay as they were.
C19_LongLabelFailsUnsent ==
    [][ (phase = "resolving" /\ HasLongLabel(stack[Len(stack)].qname)) =>
            /\ lastReply'.st \in {"LabelTooLong", "BindFailure"}
            /\ sent' = sent
            /\ lastQuery' = lastQuery ]_vars

\* the query for the name with the 64-byte label failed in lookup, nothing
\* was sent upstream, and the client was answered
C19_Witness ==
    /\ lastReply.st = "LabelTooLong"
    /\ sent = 0
    /\ lastQuery = NoValue
    /\ response.st = "sent"
    /\ response.pkt.rescode = "SERVFAIL"

\* the items of one part of an emitted packet, in the order emitted
PartOf(wire, part) ==
    LET sel == SelectSeq(wire, LAMBDA e : e.part = part)
    IN  [i \in DOMAIN sel |-> sel[i].item]

PartRank(part) ==
    CASE part = "header" -> 0
      [] part = "question" -> 1
      [] part = "answer" -> 2
      [] part = "authority" -> 3
      [] part = "additional" -> 4

\* wire is what the claim says write emits for packet p
WrittenAsSaid(wire, p) ==
    /\ Len(PartOf(wire, "header")) = 1
    /\ wire[1].item.counts = Counts(Len(p.questions), Len(p.answers),
                                    Len(p.authorities), Len(p.resources))
    /\ \A i, j \in DOMAIN wire : i < j => PartRank(wire[i].part) <= PartRank(wire[j].part)
    /\ PartOf(wire, "question") = p.questions
    /\ PartOf(wire, "answer") = p.answers
    /\ PartOf(wire, "authority") = p.authorities
    /\ PartOf(wire, "additional") = p.resources

\* C20: every packet the server writes, the upstream query and the
\* response to the client, is emitted with header counts equal to the
\* lengths of its four sections, whatever the count fields held before the
\* write, and as header, questions, answers, authorities, additional
\* records in that order.
C20_WriteRecomputesCounts ==
    /\ lastQuery # NoValue => WrittenAsSaid(lastQuery.wire, lastQuery.pkt)
    /\ (response.pkt # NoValue /\ response.st # "WriteError") =>
           WrittenAsSaid(response.wire, response.pkt)

\* a response was sent whose header counts were all zero before the write
\* and which carries a question, an authority and an additional record
C20_Witness ==
    /\ response.st = "sent"
    /\ response.pkt.counts = Counts(0, 0, 0, 0)
    /\ response.wire[1].item.counts = Counts(1, 0, 1, 1)
    /\ lastQuery.pkt.counts.questions = 1

\* the errors a decode returns as Err
DecodeErrors == {"BufferBounds", "MalformedName"}

\* the items that lie one after another from p, a question or a record
\* each as kinds says, up to the first one that does not decode
RECURSIVE ItemsFrom(_, _, _, _)
ItemsFrom(b, p, kinds, acc) ==
    LET Next1(d) == IF d.st # "ok" THEN [st |-> d.st, items |-> acc]
                    ELSE ItemsFrom(b, d.pos, Tail(kinds), Append(acc, d.val))
    IN  IF kinds = <<>> THEN [st |-> "ok", items |-> acc]
        ELSE IF Head(kinds) = "question" THEN Next1(QuestionRead(b, p, <<>>))
        ELSE Next1(RecordRead(b, p))

\* the result of the from_buffer call just made
Decoded == op.val["DnsPacket::from_buffer"]

\* what lies in the buffer after its header, read as the header's counts say
Declared ==
    ItemsFrom(buf, HeaderLen,
              Repeat("question", U16At(buf, 4))
              \o Repeat("record", U16At(buf, 6) + U16At(buf, 8) + U16At(buf, 10)), <<>>)

\* C21: from_buffer either fails with the error of the first item that
\* does not decode and gives no message, or gives a message whose four
\* sections have the lengths of the header's four counts and hold the
\* items of the buffer in the order questions, answers, authorities,
\* additional records.
C21_DecodeAllOrNothing ==
    op.name = "DnsPacket::from_buffer" =>
        \/ /\ op.st = "ok"
           /\ Declared.st = "ok"
           /\ Len(Decoded.questions) = U16At(buf, 4)
           /\ Len(Decoded.answers) = U16At(buf, 6)
           /\ Len(Decoded.authorities) = U16At(buf, 8)
           /\ Len(Decoded.resources) = U16At(buf, 10)
           /\ Decoded.questions \o Decoded.answers \o Decoded.authorities
              \o Decoded.resources = Declared.items
        \/ /\ op.st \in DecodeErrors
           /\ Declared.st = op.st
           /\ Decoded = NoValue

\* C22: when a request was decoded and its resolution has returned, with a
\* result or with a failure, handle_query has handed one response to
\* send_to for the request's source, whatever the size of the response.
C22_EveryRequestAnswered ==
    (phase = "idle" /\ request # NoValue /\ outcome # NoOutcome) =>
        response.st \in {"sent", "SendFailure"}

====
